---- MODULE Spec2Model ----
(***************************************************************************)
(* Model of NovelCoronaAPIv2 (app/models/covid_model_api_v2.py).           *)
(*                                                                         *)
(* Python strings are sequences of one-character strings, so that          *)
(* str.lower(), str.upper(), max() over strings and strptime() are         *)
(* computed character by character.  A Python value stored in the          *)
(* envelope's 'data' slot is a record [tag, n, recs]: tag is the Python    *)
(* type, n the integer (for an int) and recs the items (for a list or a    *)
(* dict).                                                                  *)
(***************************************************************************)
EXTENDS Integers, Sequences, FiniteSets, TLC

VARIABLES
    df,                 \* self.df: the daily-report rows
    df_time_series,     \* self.df_time_series: case kind -> wide table
    df_US_time_series,  \* self.df_US_time_series: case kind -> wide table
    lookup_table,       \* self.lookup_table: code -> country name
    df_grp_by_country,  \* self.df_grp_by_country: country -> summed columns
    datetime_,          \* self.datetime
    timestamp,          \* self.timestamp
    scheme,             \* self.scheme: reference to the envelope object
    heap,               \* the envelope objects, by reference
    pc,                 \* "new", "ready" or "init_failed"
    raised,             \* exception of the most recent operation, or "none"
    last,               \* the most recent query call
    returned            \* references handed out to callers so far

vars == <<df, df_time_series, df_US_time_series, lookup_table,
          df_grp_by_country, datetime_, timestamp, scheme, heap, pc, raised,
          last, returned>>

inputs == <<df, df_time_series, df_US_time_series, lookup_table>>
built == <<df_grp_by_country, datetime_, timestamp, scheme, pc>>

----------------------------------------------------------------------------
(* Bounds *)

MaxRows == 2

----------------------------------------------------------------------------
(* Strings *)

UpperAlpha == <<"A","B","C","D","E","F","G","H","I","J","K","L","M",
                "N","O","P","Q","R","S","T","U","V","W","X","Y","Z">>
LowerAlpha == <<"a","b","c","d","e","f","g","h","i","j","k","l","m",
                "n","o","p","q","r","s","t","u","v","w","x","y","z">>
Digits == <<"0","1","2","3","4","5","6","7","8","9">>

\* the lowercase of each uppercase letter, and the reverse
LowerOf ==
    [c \in { UpperAlpha[k] : k \in DOMAIN UpperAlpha } |->
        LowerAlpha[CHOOSE k \in DOMAIN UpperAlpha : UpperAlpha[k] = c]]
UpperOf ==
    [c \in { LowerAlpha[k] : k \in DOMAIN LowerAlpha } |->
        UpperAlpha[CHOOSE k \in DOMAIN LowerAlpha : LowerAlpha[k] = c]]

\* str.lower()
Lower(s) ==
    [i \in DOMAIN s |-> IF s[i] \in DOMAIN LowerOf THEN LowerOf[s[i]] ELSE s[i]]

\* str.upper()
Upper(s) ==
    [i \in DOMAIN s |-> IF s[i] \in DOMAIN UpperOf THEN UpperOf[s[i]] ELSE s[i]]

\* ord(c), for the characters a Last_Update value is made of
Ord(c) ==
    IF \E k \in DOMAIN Digits : Digits[k] = c
    THEN 47 + (CHOOSE k \in DOMAIN Digits : Digits[k] = c)
    ELSE CASE c = " " -> 32
           [] c = "-" -> 45
           [] c = "/" -> 47
           [] c = ":" -> 58
           [] OTHER -> 63

\* a < b for Python strings: lexicographic by code point
RECURSIVE StrLess(_, _)
StrLess(a, b) ==
    IF a = <<>> THEN b # <<>>
    ELSE IF b = <<>> THEN FALSE
    ELSE IF Ord(Head(a)) # Ord(Head(b)) THEN Ord(Head(a)) < Ord(Head(b))
    ELSE StrLess(Tail(a), Tail(b))

\* max(list of str); the caller guarantees a non-empty list
StrMax(l) ==
    CHOOSE m \in {l[i] : i \in DOMAIN l} :
        \A i \in DOMAIN l : ~ StrLess(m, l[i])

----------------------------------------------------------------------------
(* datetime.strptime(s, '%Y-%m-%d %H:%M:%S').timestamp() *)

IsDigit(c) == \E k \in DOMAIN Digits : Digits[k] = c

DigitVal(c) == (CHOOSE k \in DOMAIN Digits : Digits[k] = c) - 1

\* the maximal runs of digits and of non-digits of s, in order
RECURSIVE Runs(_)
Runs(s) ==
    IF s = <<>> THEN <<>>
    ELSE LET rest == Runs(Tail(s))
         IN  IF rest # <<>> /\ IsDigit(Head(rest[1])) = IsDigit(Head(s))
             THEN <<(<<Head(s)>> \o rest[1])>> \o Tail(rest)
             ELSE <<(<<Head(s)>>)>> \o rest

RECURSIVE NumVal(_)
NumVal(ds) ==
    IF ds = <<>> THEN 0
    ELSE 10 * NumVal(SubSeq(ds, 1, Len(ds) - 1)) + DigitVal(ds[Len(ds)])

IsLeap(y) == (y % 4 = 0 /\ y % 100 # 0) \/ y % 400 = 0

DaysInMonth(y, m) ==
    IF m = 2 THEN (IF IsLeap(y) THEN 29 ELSE 28)
    ELSE IF m \in {4, 6, 9, 11} THEN 30 ELSE 31

\* The directives' patterns: %Y is four digits, the others one or two digits
\* within their range, '-' and ':' literal, the blank of the format one or
\* more blanks; the whole string must be consumed and name a real date.
StrptimeOk(s) ==
    LET r == Runs(s)
    IN  /\ Len(r) = 11
        /\ IsDigit(s[1])
        /\ Len(r[1]) = 4
        /\ r[2] = <<"-">>
        /\ r[4] = <<"-">>
        /\ Len(r[6]) >= 1
        /\ \A i \in DOMAIN r[6] : r[6][i] = " "
        /\ r[8] = <<":">>
        /\ r[10] = <<":">>
        /\ \A k \in {3, 5, 7, 9, 11} : Len(r[k]) \in {1, 2}
        /\ NumVal(r[1]) >= 1
        /\ NumVal(r[3]) \in 1..12
        /\ NumVal(r[5]) \in 1..DaysInMonth(NumVal(r[1]), NumVal(r[3]))
        /\ NumVal(r[7]) \in 0..23
        /\ NumVal(r[9]) \in 0..59
        /\ NumVal(r[11]) \in 0..59

\* days from 1970-01-01 to the civil date y-m-d
DaysFromCivil(y, m, d) ==
    LET yy  == IF m <= 2 THEN y - 1 ELSE y
        era == yy \div 400
        yoe == yy - era * 400
        mp  == (m + 9) % 12
        doy == (153 * mp + 2) \div 5 + d - 1
        doe == yoe * 365 + yoe \div 4 - yoe \div 100 + doy
    IN  era * 146097 + doe - 719468

\* .timestamp() of the parsed naive datetime, the host's zone being UTC
Timestamp(s) ==
    LET r == Runs(s)
    IN  DaysFromCivil(NumVal(r[1]), NumVal(r[3]), NumVal(r[5])) * 86400
        + NumVal(r[7]) * 3600 + NumVal(r[9]) * 60 + NumVal(r[11])

----------------------------------------------------------------------------
(* The loaded tables (utils.get_data): what construction is handed *)

Italy  == <<"I","t","a","l","y">>
US     == <<"U","S">>
Narnia == <<"N","a","r","n","i","a">>

T_HI    == <<"2","0","2","0","-","0","3","-","1","4"," ","1","0",":","0","0",":","0","0">>
T_LO    == <<"2","0","2","0","-","0","3","-","1","3"," ","0","9",":","0","0",":","0","0">>
\* no leading zeros: not YYYY-MM-DD HH:MM:SS, yet strptime takes it
T_LOOSE == <<"2","0","2","0","-","3","-","1","5"," ","8",":","0","0",":","0","0">>
\* malformed, and below every well-formed value of this century
T_BADLO == <<"0","3","/","1","4","/","2","0"," ","1","0",":","0","0">>
\* malformed, and above every well-formed value of this century
T_BADHI == <<"3","/","1","4","/","2","0"," ","1","0",":","0","0">>

Row(c, t, cf, de, re, ac) ==
    [Country_Region |-> c, Last_Update |-> t,
     Confirmed |-> cf, Deaths |-> de, Recovered |-> re, Active |-> ac]

RowPool ==
    { Row(Italy, T_HI,    5, 1, 2, 2),
      Row(Italy, T_LO,    3, 0, 1, 2),
      Row(US,    T_LOOSE, 5, 2, 0, 3),
      Row(US,    T_BADLO, 9, 3, 1, 5),
      Row(US,    T_BADHI, 1, 1, 0, 0) }

DailyReports == UNION { [1..n -> RowPool] : n \in 0..MaxRows }

LookupKeys == { <<"I","T">>, <<"I","T","A","L","Y">> }
LookupVals == { Italy, Narnia }
LookupTables == UNION { [K -> LookupVals] : K \in SUBSET LookupKeys }

\* the arguments get_country is called with
CountryArgs ==
    { Lower(Italy), Italy, Upper(Italy), <<"i","t">>, <<"I","T">>,
      Lower(US), <<"z","z">> }

\* wide tables; strings no operation looks into are left as TLA+ strings
Dates == <<"1/22/20", "1/23/20">>

GlobalRow(p, c, lat, long, v) ==
    [Province_State |-> p, Country_Region |-> c, Lat |-> lat, Long |-> long,
     vals |-> v]

GlobalTimeSeries ==
    [confirmed |-> [cols |-> Dates,
                    rows |-> << GlobalRow("", "Italy", 43, 12, <<1, 4>>),
                                GlobalRow("Hubei", "China", 30, 112, <<7, 9>>) >>],
     deaths    |-> [cols |-> Dates,
                    rows |-> << GlobalRow("", "Italy", 43, 12, <<0, 1>>),
                                GlobalRow("Hubei", "China", 30, 112, <<2, 3>>) >>],
     recovered |-> [cols |-> Dates,
                    rows |-> << GlobalRow("", "Italy", 43, 12, <<0, 2>>),
                                GlobalRow("Hubei", "China", 30, 112, <<1, 5>>) >>]]

USRow(uid, fips, admin2, p, lat, long, v) ==
    [UID |-> uid, iso2 |-> "US", iso3 |-> "USA", code3 |-> 840, FIPS |-> fips,
     Admin2 |-> admin2, Province_State |-> p, Country_Region |-> "US",
     Lat |-> lat, Long_ |-> long, vals |-> v]

USTimeSeries ==
    [confirmed |-> [cols |-> Dates,
                    rows |-> << USRow(84053033, 53033, "King", "Washington",
                                      47, -121, <<1, 3>>) >>],
     deaths    |-> [cols |-> Dates,
                    rows |-> << USRow(84053033, 53033, "King", "Washington",
                                      47, -121, <<0, 1>>) >>]]

TimeSeriesCases == {"confirmed", "deaths", "recovered", "global", "active"}
USCases == {"confirmed", "deaths", "recovered"}

----------------------------------------------------------------------------
(* Python values *)

None == [tag |-> "None", n |-> 0, recs |-> <<>>]
PyInt(v) == [tag |-> "int", n |-> v, recs |-> <<>>]
PyList(l) == [tag |-> "list", n |-> 0, recs |-> l]
PyDict(d) == [tag |-> "dict", n |-> 0, recs |-> <<d>>]

NoCall == [op |-> "none", arg |-> <<>>, raised |-> "none", ref |-> 0, data |-> None]

Init ==
    /\ df \in DailyReports
    /\ lookup_table \in LookupTables
    /\ df_time_series = GlobalTimeSeries
    /\ df_US_time_series = USTimeSeries
    /\ df_grp_by_country = <<>>
    /\ datetime_ = <<>>
    /\ timestamp = 0
    /\ scheme = 0
    /\ heap = <<>>
    /\ pc = "new"
    /\ raised = "none"
    /\ last = NoCall
    /\ returned = {}

----------------------------------------------------------------------------
(* __init__ *)

RangeOf(l) == { l[i] : i \in DOMAIN l }

RECURSIVE SumOver(_, _)
\* Series.sum(): the sum of column col over the rows
SumOver(rows, col) ==
    IF rows = <<>> THEN 0 ELSE rows[1][col] + SumOver(Tail(rows), col)

SelectRows(rows, c) == SelectSeq(rows, LAMBDA r : r.Country_Region = c)

concerned_columns == <<"Confirmed", "Deaths", "Recovered", "Active">>

\* GroupByCountry with .first() for .sum(): each country's first row
GroupByCountryFirst(rows) ==
    [c \in { r.Country_Region : r \in RangeOf(rows) } |->
        [col \in RangeOf(concerned_columns) |-> SelectRows(rows, c)[1][col]]]

\* self.df.groupby('Country_Region')[concerned_columns].sum()
GroupByCountry(rows) ==
    [c \in { r.Country_Region : r \in RangeOf(rows) } |->
        [col \in RangeOf(concerned_columns) |-> SumOver(SelectRows(rows, c), col)]]

\* MaxLastUpdate taking the first row's value for the maximum
MaxLastUpdateFirst(rows) == rows[1].Last_Update

\* max(self.df['Last_Update'].tolist())
MaxLastUpdate(rows) == StrMax([i \in DOMAIN rows |-> rows[i].Last_Update])

\* InitRaises parsing every row's Last_Update instead of the maximum
InitRaisesAny(rows) ==
    IF rows = <<>> THEN "ValueError"
    ELSE IF \E i \in DOMAIN rows : ~ StrptimeOk(rows[i].Last_Update)
         THEN "ValueError"
    ELSE "none"

\* __init__ raises: max() of an empty list, or strptime of the maximum
InitRaises(rows) ==
    IF rows = <<>> THEN "ValueError"
    ELSE IF ~ StrptimeOk(MaxLastUpdate(rows)) THEN "ValueError"
    ELSE "none"

Construct ==
    /\ pc = "new"
    /\ raised' = InitRaises(df)
    /\ IF InitRaises(df) = "none"
       THEN /\ df_grp_by_country' = GroupByCountry(df)
            /\ datetime_' = MaxLastUpdate(df)
            /\ timestamp' = Timestamp(MaxLastUpdate(df))
            /\ heap' = << [data |-> None, dt |-> MaxLastUpdate(df),
                           ts |-> Timestamp(MaxLastUpdate(df))] >>
            /\ scheme' = 1
            /\ pc' = "ready"
       ELSE /\ pc' = "init_failed"
            /\ UNCHANGED <<df_grp_by_country, datetime_, timestamp, heap, scheme>>
    /\ UNCHANGED <<inputs, last, returned>>

----------------------------------------------------------------------------
(* The envelope *)

\* PackedData copying the envelope: packed_data = dict(self.scheme)
PackedDataCopy(h, s) == [heap |-> Append(h, h[s]), ref |-> Len(h) + 1]

\* packed_data = self.scheme: the name is bound to the one envelope object
PackedData(h, s) == [heap |-> h, ref |-> s]

\* packed_data = self.scheme; packed_data['data'] = data
Pack(h, s, data) ==
    LET p == PackedData(h, s)
    IN  [heap |-> [p.heap EXCEPT ![p.ref].data = data], ref |-> p.ref]

\* A query call ends: it raised exc, or returned the reference ref after
\* producing data; h is the heap it leaves.
Return(op, arg, exc, h, ref, data) ==
    /\ heap' = h
    /\ raised' = exc
    /\ last' = [op |-> op, arg |-> arg, raised |-> exc,
                ref |-> IF exc = "none" THEN ref ELSE 0,
                data |-> IF exc = "none" THEN data ELSE None]
    /\ returned' = IF exc = "none" THEN returned \cup {ref} ELSE returned
    /\ UNCHANGED <<inputs, built>>

----------------------------------------------------------------------------
(* get_current *)

Perms(S) ==
    { p \in [1..Cardinality(S) -> S] : \A x \in S : \E i \in DOMAIN p : p[i] = x }

Descending(grp, p) ==
    \A i \in 1..(Len(p) - 1) : grp[p[i]].Confirmed >= grp[p[i + 1]].Confirmed

\* SortValues with ascending=True
SortValuesAscending(grp) ==
    { p \in Perms(DOMAIN grp) :
        \A i \in 1..(Len(p) - 1) : grp[p[i]].Confirmed <= grp[p[i + 1]].Confirmed }

\* sort_values(by='Confirmed', ascending=False): the orders of the index a
\* sort may leave, the order among equal keys being the algorithm's
SortValues(grp) == { p \in Perms(DOMAIN grp) : Descending(grp, p) }

\* reset_index(), the renamed columns, to_dict('index').values()
ToRecords(grp, p) ==
    [i \in DOMAIN p |->
        [location  |-> p[i],
         confirmed |-> grp[p[i]].Confirmed,
         deaths    |-> grp[p[i]].Deaths,
         recovered |-> grp[p[i]].Recovered,
         active    |-> grp[p[i]].Active]]

\* the values the local 'data' of get_current may take
CurrentData(grp) == { ToRecords(grp, p) : p \in SortValues(grp) }

get_current ==
    /\ pc = "ready"
    /\ \E data \in CurrentData(df_grp_by_country) :
          LET e == Pack(heap, scheme, PyList(data))
          IN  Return("get_current", <<>>, "none", e.heap, e.ref, PyList(data))

----------------------------------------------------------------------------
(* get_country *)

\* line 59: country_name not in [the lowercased locations]
Listed(all, country_name) ==
    \E i \in DOMAIN all : country_name = Lower(all[i].location)

\* lines 59-63: the exception raised, or the record found
Resolve(all, country_name, lut) ==
    IF ~ Listed(all, country_name) /\ Upper(country_name) \notin DOMAIN lut
    THEN [raised |-> "KeyError", data |-> None]
    ELSE LET name == IF Listed(all, country_name) THEN country_name
                     ELSE lut[Upper(country_name)]
             found == SelectSeq(all, LAMBDA r : Lower(name) = Lower(r.location))
         IN  IF found = <<>>
             THEN [raised |-> "IndexError", data |-> None]
             ELSE [raised |-> "none", data |-> PyDict(found[1])]

get_country(country_name) ==
    /\ pc = "ready"
    /\ \E all \in CurrentData(df_grp_by_country) :
          LET cur == Pack(heap, scheme, PyList(all))      \* self.get_current()
              got == cur.heap[cur.ref].data.recs          \* ['data']
              res == Resolve(got, country_name, lookup_table)
              e   == Pack(cur.heap, scheme, res.data)
          IN  IF res.raised = "none"
              THEN Return("get_country", country_name, "none", e.heap, e.ref, res.data)
              ELSE Return("get_country", country_name, res.raised, cur.heap, 0, None)

----------------------------------------------------------------------------
(* get_confirmed, get_deaths, get_recovered, get_active, get_total *)

ConfirmedSum(rows) == SumOver(rows, "Confirmed")
\* DeathsSum reading the Recovered column
DeathsSumOfRecovered(rows) == SumOver(rows, "Recovered")
DeathsSum(rows) == SumOver(rows, "Deaths")
RecoveredSum(rows) == SumOver(rows, "Recovered")
ActiveSum(rows) == SumOver(rows, "Active")

TotalData(rows) ==
    PyDict([confirmed |-> SumOver(rows, "Confirmed"),
            deaths    |-> SumOver(rows, "Deaths"),
            recovered |-> SumOver(rows, "Recovered"),
            active    |-> SumOver(rows, "Active")])

Summation(op, data) ==
    /\ pc = "ready"
    /\ LET e == Pack(heap, scheme, data)
       IN  Return(op, <<>>, "none", e.heap, e.ref, data)

get_confirmed == Summation("get_confirmed", PyInt(ConfirmedSum(df)))
get_deaths == Summation("get_deaths", PyInt(DeathsSum(df)))
get_recovered == Summation("get_recovered", PyInt(RecoveredSum(df)))
get_active == Summation("get_active", PyInt(ActiveSum(df)))
get_total == Summation("get_total", TotalData(df))

----------------------------------------------------------------------------
(* get_time_series, get_US_time_series *)

\* TimeSeries: the date columns of one row, in column order
TimeSeriesOf(cols, row) ==
    [j \in DOMAIN cols |-> [date |-> cols[j], value |-> row.vals[j]]]

\* __extract_time_series
extract_time_series(table) ==
    [i \in DOMAIN table.rows |->
        LET data == table.rows[i]
        IN  [Province_State |-> data.Province_State,
             Country_Region |-> data.Country_Region,
             Coordinates    |-> [Lat |-> data.Lat, Long |-> data.Long],
             TimeSeries     |-> TimeSeriesOf(table.cols, data)]]

\* __extract_US_time_series
extract_US_time_series(table) ==
    [i \in DOMAIN table.rows |->
        LET data == table.rows[i]
        IN  [Province_State |-> data.Province_State,
             Country_Region |-> data.Country_Region,
             Info           |-> [UID |-> data.UID, iso2 |-> data.iso2,
                                 iso3 |-> data.iso3, code3 |-> data.code3,
                                 FIPS |-> data.FIPS, Admin2 |-> data.Admin2],
             Coordinates    |-> [Lat |-> data.Lat, Long |-> data.Long_],
             TimeSeries     |-> TimeSeriesOf(table.cols, data)]]

RECURSIVE ColumnTotal(_, _)
\* df.iloc[:, 4:].sum(axis=0), at date column j
ColumnTotal(rows, j) ==
    IF rows = <<>> THEN 0 ELSE rows[1].vals[j] + ColumnTotal(Tail(rows), j)

\* __extract_time_series_global: one single-entry dict per date, the date
\* mapped to the total of every case kind (the tables share their columns)
extract_time_series_global(tables) ==
    LET cols == tables[CHOOSE k \in DOMAIN tables : TRUE].cols
    IN  [j \in DOMAIN cols |->
            [date   |-> cols[j],
             totals |-> [k \in DOMAIN tables |-> ColumnTotal(tables[k].rows, j)]]]

get_time_series(case) ==
    /\ pc = "ready"
    /\ IF case # "global" /\ case \notin DOMAIN df_time_series
       THEN Return("get_time_series", <<case>>, "KeyError", heap, 0, None)
       ELSE LET data == IF case # "global"
                        THEN PyList(extract_time_series(df_time_series[case]))
                        ELSE PyList(extract_time_series_global(df_time_series))
                e == Pack(heap, scheme, data)
            IN  Return("get_time_series", <<case>>, "none", e.heap, e.ref, data)

\* line 187: case not in ['confirmed', 'deaths']
USCaseKnown(case) == case \in {"confirmed", "deaths"}

\* get_US_time_series indexing the tables whatever the case, as
\* get_time_series does
get_US_time_series_strict(case) ==
    /\ pc = "ready"
    /\ IF case \notin DOMAIN df_US_time_series
       THEN Return("get_US_time_series", <<case>>, "KeyError", heap, 0, None)
       ELSE LET data == PyList(extract_US_time_series(df_US_time_series[case]))
                e == Pack(heap, scheme, data)
            IN  Return("get_US_time_series", <<case>>, "none", e.heap, e.ref, data)

get_US_time_series(case) ==
    /\ pc = "ready"
    /\ LET data == IF ~ USCaseKnown(case)
                   THEN PyList(<<>>)
                   ELSE PyList(extract_US_time_series(df_US_time_series[case]))
           e == Pack(heap, scheme, data)
       IN  Return("get_US_time_series", <<case>>, "none", e.heap, e.ref, data)

----------------------------------------------------------------------------

Next ==
    \/ Construct
    \/ get_current
    \/ \E country_name \in CountryArgs : get_country(country_name)
    \/ get_confirmed
    \/ get_deaths
    \/ get_recovered
    \/ get_active
    \/ get_total
    \/ \E case \in TimeSeriesCases : get_time_series(case)
    \/ \E case \in USCases : get_US_time_series(case)

Spec == Init /\ [][Next]_vars

----------------------------------------------------------------------------
(* What the properties are stated with: the raw rows, read independently  *)
(* of the service's own aggregates.                                       *)

Countries == { df[i].Country_Region : i \in DOMAIN df }

RECURSIVE RowsSum(_, _, _)
\* the sum of column col over the first n raw rows whose country is in S
RowsSum(n, S, col) ==
    IF n = 0 THEN 0
    ELSE RowsSum(n - 1, S, col)
         + (IF df[n].Country_Region \in S THEN df[n][col] ELSE 0)

CountryRecord(c) ==
    [location  |-> c,
     confirmed |-> RowsSum(Len(df), {c}, "Confirmed"),
     deaths    |-> RowsSum(Len(df), {c}, "Deaths"),
     recovered |-> RowsSum(Len(df), {c}, "Recovered"),
     active    |-> RowsSum(Len(df), {c}, "Active")]

\* t is a Last_Update of the table that no other one exceeds
IsLatest(t) ==
    /\ \E i \in DOMAIN df : df[i].Last_Update = t
    /\ \A i \in DOMAIN df : ~ StrLess(t, df[i].Last_Update)

\* s is written YYYY-MM-DD HH:MM:SS
WellFormed(s) ==
    /\ Len(s) = 19
    /\ \A i \in {1, 2, 3, 4, 6, 7, 9, 10, 12, 13, 15, 16, 18, 19} : IsDigit(s[i])
    /\ s[5] = "-" /\ s[8] = "-" /\ s[11] = " " /\ s[14] = ":" /\ s[17] = ":"

\* name matches an aggregated country, letter case aside
Matches(name) == { c \in Countries : Lower(c) = Lower(name) }

Called(op) == pc = "ready" /\ last.op = op

\* the envelope the most recent call returned, as it is now
Envelope == heap[last.ref]

----------------------------------------------------------------------------
(* C1: get_country(name) succeeds with the country's record for every     *)
(* name equal to an aggregated country up to letter case, whatever the     *)
(* lookup table holds.                                                     *)
C1_CaseInsensitiveMatch ==
    (Called("get_country") /\ Matches(last.arg) # {}) =>
        /\ last.raised = "none"
        /\ \E c \in Matches(last.arg) : Envelope.data = PyDict(CountryRecord(c))

(* C2: for a country C of the aggregated list and a code whose uppercase  *)
(* form the lookup table maps to C's name, get_country(code) and          *)
(* get_country(C's name), called one after the other, both succeed and    *)
(* return the same data.                                                  *)
C2_CodeAndNameAgree ==
    [][ ( /\ Called("get_country")
          /\ last'.op = "get_country"
          /\ Upper(last.arg) \in DOMAIN lookup_table
          /\ lookup_table[Upper(last.arg)] \in Countries
          /\ last'.arg = lookup_table[Upper(last.arg)] )
        => ( /\ last.raised = "none"
             /\ last'.raised = "none"
             /\ last'.data = last.data
             /\ last'.data = PyDict(CountryRecord(last'.arg)) ) ]_vars

\* neither resolution path of get_country(name) succeeds
Unresolved(name) ==
    /\ Matches(name) = {}
    /\ \/ Upper(name) \notin DOMAIN lookup_table
       \/ Matches(lookup_table[Upper(name)]) = {}

(* C3: when neither resolution path succeeds, get_country fails with the  *)
(* one error kind LocationNotFound, whether the lookup table lacks the     *)
(* uppercased name or maps it to a name of no aggregated country.          *)
C3_LocationNotFound ==
    (Called("get_country") /\ Unresolved(last.arg)) =>
        last.raised = "LocationNotFound"

(* C4, as claimed: construction fails whenever some Last_Update does not  *)
(* match the format (strptime rejects it), also when that value is not    *)
(* the maximum of the table.                                              *)
C4_AnyMalformedFails ==
    (pc # "new" /\ \E i \in DOMAIN df : ~ StrptimeOk(df[i].Last_Update)) =>
        (pc = "init_failed" /\ raised = "ValueError")

(* C4, amended: construction of a non-empty table fails, with strptime's  *)
(* ValueError, exactly when the maximum Last_Update (by string            *)
(* comparison) is not accepted by strptime under '%Y-%m-%d %H:%M:%S';     *)
(* the other rows' values are never parsed.                               *)
C4_OnlyLatestIsParsed ==
    (pc # "new" /\ df # <<>>) =>
        /\ (pc = "init_failed") <=>
               (\E i \in DOMAIN df : /\ IsLatest(df[i].Last_Update)
                                     /\ ~ StrptimeOk(df[i].Last_Update))
        /\ (pc = "init_failed") => (raised = "ValueError")

\* constructed, although a row that is not the latest is malformed
C4_Witness ==
    /\ pc = "ready"
    /\ \E i \in DOMAIN df : /\ ~ WellFormed(df[i].Last_Update)
                            /\ ~ StrptimeOk(df[i].Last_Update)
                            /\ ~ IsLatest(df[i].Last_Update)

(* C5: after construction and any sequence of queries, failed ones        *)
(* included, dt and ts of the envelope and of every envelope returned so  *)
(* far are the values construction computed from the maximum Last_Update. *)
C5_StampFixed ==
    pc = "ready" =>
        /\ IsLatest(datetime_)
        /\ timestamp = Timestamp(datetime_)
        /\ \A r \in returned \cup {scheme} :
              heap[r].dt = datetime_ /\ heap[r].ts = timestamp

\* a query has returned, a later one has raised, and the rows' Last_Update
\* values differ
C5_Witness ==
    /\ pc = "ready"
    /\ returned # {}
    /\ last.raised # "none"
    /\ \E i \in DOMAIN df : ~ IsLatest(df[i].Last_Update)
    /\ heap[scheme].dt = T_HI
    /\ heap[scheme].ts = 1584180000

(* C6: get_current returns one record per distinct Country_Region, each   *)
(* holding the sums of the four columns over that country's raw rows.     *)
C6_OneSummedRecordPerCountry ==
    Called("get_current") =>
        LET recs == Envelope.data.recs
        IN  /\ last.raised = "none"
            /\ Len(recs) = Cardinality(Countries)
            /\ { recs[i].location : i \in DOMAIN recs } = Countries
            /\ \A i \in DOMAIN recs : recs[i] = CountryRecord(recs[i].location)

\* two rows of one country, Confirmed 5 and 3, give the one record with 8
C6_Witness ==
    /\ Called("get_current")
    /\ Len(df) = 2
    /\ df[1].Country_Region = df[2].Country_Region
    /\ df[1].Confirmed = 5 /\ df[2].Confirmed = 3
    /\ Envelope.data.recs =
          << [location |-> Italy, confirmed |-> 8, deaths |-> 1,
              recovered |-> 3, active |-> 4] >>

(* C7: the records get_current returns are in descending order of         *)
(* confirmed: confirmed[i] >= confirmed[i+1] for adjacent records.        *)
C7_SortedDescending ==
    Called("get_current") =>
        LET recs == Envelope.data.recs
        IN  \A i \in 1..(Len(recs) - 1) : recs[i].confirmed >= recs[i + 1].confirmed

\* two countries with different confirmed counts, the larger first
C7_Witness ==
    /\ Called("get_current")
    /\ Len(Envelope.data.recs) = 2
    /\ Envelope.data.recs[1].confirmed > Envelope.data.recs[2].confirmed
    /\ df[1].Confirmed < df[2].Confirmed

\* the sums of the four columns over all raw rows
RowTotals ==
    [confirmed |-> RowsSum(Len(df), Countries, "Confirmed"),
     deaths    |-> RowsSum(Len(df), Countries, "Deaths"),
     recovered |-> RowsSum(Len(df), Countries, "Recovered"),
     active    |-> RowsSum(Len(df), Countries, "Active")]

Getter == [get_confirmed |-> "confirmed", get_deaths |-> "deaths",
           get_recovered |-> "recovered", get_active |-> "active"]

(* C8: the four sums of get_total are the values get_confirmed,           *)
(* get_deaths, get_recovered and get_active return (called right before   *)
(* or right after it), each the sum of its column over all raw rows.      *)
C8_TotalMatchesGetters ==
    [][ pc = "ready" =>
          /\ (last.op = "get_total" /\ last'.op \in DOMAIN Getter)
                => last.data.recs[1][Getter[last'.op]] = heap'[last'.ref].data.n
          /\ (last.op \in DOMAIN Getter /\ last'.op = "get_total")
                => heap'[last'.ref].data.recs[1][Getter[last.op]] = last.data.n
          /\ last'.op = "get_total"
                => heap'[last'.ref].data = PyDict(RowTotals)
          /\ last'.op \in DOMAIN Getter
                => heap'[last'.ref].data = PyInt(RowTotals[Getter[last'.op]]) ]_vars

\* get_total over two rows whose columns all differ
C8_Witness ==
    /\ Called("get_total")
    /\ Len(df) = 2
    /\ Envelope.data.recs[1] =
          [confirmed |-> 8, deaths |-> 1, recovered |-> 3, active |-> 4]

(* C9: get_US_time_series with a case other than 'confirmed' and 'deaths' *)
(* raises nothing and returns the envelope with data [] and the           *)
(* construction-time dt and ts.                                           *)
C9_UnknownUSCaseIsEmpty ==
    (Called("get_US_time_series") /\ last.arg[1] \notin {"confirmed", "deaths"}) =>
        /\ last.raised = "none"
        /\ last.ref \in DOMAIN heap
        /\ Envelope = [data |-> PyList(<<>>), dt |-> datetime_, ts |-> timestamp]

C9_Witness ==
    /\ Called("get_US_time_series")
    /\ last.arg = <<"recovered">>
    /\ Envelope.data = PyList(<<>>)
    /\ Envelope.dt = T_HI

(* C10, as claimed: every envelope returned so far holds the data of the  *)
(* most recent successful call, and a query that raises leaves the        *)
(* envelope's data as it was.                                             *)
C10_RaiseLeavesData ==
    [][ pc = "ready" =>
          /\ last'.raised = "none"
                => \A r \in returned' : heap'[r].data = last'.data
          /\ last'.raised # "none"
                => heap'[scheme].data = heap[scheme].data ]_vars

(* C10, amended: all queries return the one envelope object, so every     *)
(* envelope returned so far holds the data of the most recent successful  *)
(* call; a get_time_series call that raises leaves the envelope's data as *)
(* it was, and a get_country call that raises leaves in it the list its   *)
(* inner get_current() call stored.                                       *)
C10_SharedEnvelope ==
    [][ pc = "ready" =>
          /\ returned' \subseteq {scheme}
          /\ last'.raised = "none"
                => \A r \in returned' : heap'[r].data = last'.data
          /\ (last'.raised # "none" /\ last'.op # "get_country")
                => heap'[scheme].data = heap[scheme].data
          /\ (last'.raised # "none" /\ last'.op = "get_country")
                => \E p \in Perms(Countries) :
                      heap'[scheme].data = PyList([i \in DOMAIN p |-> CountryRecord(p[i])]) ]_vars

\* get_country has raised after an earlier call returned the envelope,
\* which now holds the list of all countries
C10_Witness ==
    /\ Called("get_country")
    /\ last.raised # "none"
    /\ returned = {scheme}
    /\ heap[scheme].data.tag = "list"
    /\ Len(heap[scheme].data.recs) = 2


====
